---- MODULE Spec2Model ----
(***************************************************************************)
(* A model of the React single-page template: the API client               *)
(* (src/lib/api.ts) as a set of in-flight asynchronous calls, each a       *)
(* small state machine that advances at its await points, and the Auth     *)
(* Context (src/contexts/AuthContext.tsx) as a mutable current-user cell   *)
(* with its login and logout mutators and its useAuth lookup, the          *)
(* validators (src/lib/validators.ts) applied to a string as it is typed,  *)
(* the route table of App with the modules it loads, and the Button        *)
(* component (src/components/ui/Button.tsx) as a function from its props   *)
(* to the element it renders.                                              *)
(***************************************************************************)
EXTENDS Integers, Sequences, FiniteSets, TLC

VARIABLES
    API_BASE_URL,   \* the base URL imported from ./constants, fixed at startup
    calls,          \* the apiClient calls made so far, in call order
    user,           \* AuthProvider's useState cell: a User or NULL
    ops,            \* the login/logout operations applied so far (history)
    storage,        \* the browser's persistent storage, which outlives a restart
    lookup,         \* the outcome of the latest useAuth() call of a consumer
    value,          \* the string handed to the validators
    verdict,        \* what isNonEmpty and isValidEmail returned for it
    history,        \* the pathnames the router was at, oldest first
    pages,          \* the page components the route table renders now
    modules,        \* the modules loaded (or being loaded) so far
    button          \* the Button rendered last: its props and its element

\* What the API client leaves alone.
authVars == <<user, ops, storage, lookup>>

\* The validators' input and results.
formVars == <<value, verdict>>

\* The router's state.
routerVars == <<history, pages, modules>>

vars ==
    <<API_BASE_URL, calls, user, ops, storage, lookup, value, verdict,
      history, pages, modules, button>>

\* ------------------------------------------------------------------ bounds

\* The number of apiClient calls that may be made (and be in flight at once).
MaxCalls == 2

\* The number of login/logout operations a behaviour applies.
MaxOps == 4

\* The length of the strings handed to the validators.
MaxLen == 5

\* The length of a pathname, in tokens, and the number of locations a
\* behaviour visits.
MaxPathLen == 3

MaxNav == 2

\* The work (calls made and their steps, logins and logouts, characters
\* typed, locations visited, lookups, a Button rendered) up to which the
\* whole application is explored.
MaxWork == 3

\* ------------------------------------------------------- JavaScript values

\* JavaScript's undefined and null, as records no other value equals.
UNDEFINED == [undefined |-> TRUE]

NULL == [null |-> TRUE]

\* Object spread {...a, ...b}: every own key of a and of b, b's value winning
\* on a key of both. Spreading undefined contributes no key.
OwnKeys(o) == IF o = UNDEFINED THEN {} ELSE DOMAIN o

Spread(a, b) ==
    [k \in OwnKeys(a) \cup OwnKeys(b) |->
        IF k \in OwnKeys(b) THEN b[k] ELSE a[k]]

\* Optional chaining o?.k: undefined when o is undefined or has no key k.
Get(o, k) == IF k \in OwnKeys(o) THEN o[k] ELSE UNDEFINED

\* ------------------------------------------------------------- API client

\* Strings that are concatenated are sequences of characters.
BaseUrls == { <<"/", "a">>, <<"h", "/">> }

Endpoints == { <<"/", "x">>, <<"x">> }

AuthorizationOnly == [k \in {"Authorization"} |-> "Bearer t"]

ContentTypeText == [k \in {"Content-Type"} |-> "text/plain"]

\* The options a caller passes: none, options without headers, headers that
\* do not name Content-Type, headers that override Content-Type.
OptionsSet ==
    { UNDEFINED,
      [method |-> "POST", body |-> "b"],
      [headers |-> AuthorizationOnly],
      [method |-> "PUT", headers |-> ContentTypeText] }

\* The default headers of every request.
DefaultHeaders == [k \in {"Content-Type"} |-> "application/json"]

\* A variant of RequestUrl that joins base and endpoint with exactly one "/".
RequestUrlJoined(base, endpoint) ==
    LET b == IF base # <<>> /\ base[Len(base)] = "/"
             THEN SubSeq(base, 1, Len(base) - 1) ELSE base
        e == IF endpoint # <<>> /\ endpoint[1] = "/"
             THEN Tail(endpoint) ELSE endpoint
    IN  b \o <<"/">> \o e

\* The URL handed to fetch: `${API_BASE_URL}${endpoint}`.
RequestUrl(base, endpoint) == base \o endpoint

\* A variant of RequestInit that sets the method GET by default.
RequestInitDefaultsMethod(options) ==
    Spread([method |-> "GET",
            headers |-> Spread(DefaultHeaders, Get(options, "headers"))],
           options)

\* The init object handed to fetch:
\*   { headers: { "Content-Type": "application/json", ...options?.headers },
\*     ...options }
RequestInit(options) ==
    Spread([headers |-> Spread(DefaultHeaders, Get(options, "headers"))],
           options)

\* The transport's responses: a status code and a body text. Response.ok is
\* true for the statuses 200..299.
Statuses == {200, 404}

Bodies == { "{\"id\":\"1\"}", "not found" }

Response(status, body) ==
    [status |-> status, ok |-> status \in 200..299, body |-> body]

Responses == { Response(s, b) : s \in Statuses, b \in Bodies }

\* Response.json() on a body text: the parsed value, or a SyntaxError.
JsonParse(text) ==
    CASE text = "{\"id\":\"1\"}" -> [ok |-> TRUE, value |-> [id |-> "1"]]
      [] OTHER -> [ok |-> FALSE, error |-> [name |-> "SyntaxError"]]

\* new ApiError(status, message)
ApiError(status, message) ==
    [name |-> "ApiError", status |-> status, message |-> message]

\* The rejection of fetch itself (network unreachable).
NetworkError == [name |-> "TypeError"]

Pending == [state |-> "pending"]

Fulfilled(v) == [state |-> "fulfilled", value |-> v]

Rejected(e) == [state |-> "rejected", reason |-> e]

\* apiClient(endpoint, options) up to its first await: fetch is invoked with
\* the URL and the init object, and the call suspends on it.
StartCall(base, endpoint, options) ==
    [ pc       |-> "fetch",
      endpoint |-> endpoint,
      options  |-> options,
      url      |-> RequestUrl(base, endpoint),
      init     |-> RequestInit(options),
      fetches  |-> 1,
      response |-> UNDEFINED,
      reads    |-> <<>>,
      promise  |-> Pending ]

\* A variant of OnFetchResolved that parses the body as JSON whatever the
\* status, before the status is looked at.
OnFetchResolvedParsesFirst(c, r) ==
    [c EXCEPT !.pc = "json", !.response = r, !.reads = Append(@, "json")]

\* fetch resolved with a response: `if (!response.ok)` reads the body as text
\* and suspends on it; otherwise the call returns response.json(), and its
\* promise follows that one.
OnFetchResolved(c, r) ==
    IF ~r.ok
    THEN [c EXCEPT !.pc = "text", !.response = r,
                   !.reads = Append(@, "text")]
    ELSE [c EXCEPT !.pc = "json", !.response = r,
                   !.reads = Append(@, "json")]

\* A variant of OnFetchRejected that recovers with a fallback value.
OnFetchRejectedFallback(c, e) ==
    [c EXCEPT !.pc = "done", !.promise = Fulfilled(NULL)]

\* A variant of OnFetchRejected that wraps the failure in an ApiError.
OnFetchRejectedWrapped(c, e) ==
    [c EXCEPT !.pc = "done", !.promise = Rejected(ApiError(0, "network"))]

\* A variant of OnFetchRejected that retries the request.
OnFetchRejectedRetry(c, e) ==
    [c EXCEPT !.pc = "fetch", !.fetches = @ + 1]

\* fetch rejected: the await throws and the call's promise rejects with the
\* transport's failure.
OnFetchRejected(c, e) ==
    [c EXCEPT !.pc = "done", !.promise = Rejected(e)]

\* A variant of OnTextResolved whose message is the status line, not the body.
OnTextResolvedStatusLine(c) ==
    [c EXCEPT !.pc = "done",
              !.promise = Rejected(ApiError(c.response.status, "Request failed"))]

\* response.text() resolved: throw new ApiError(response.status, text).
OnTextResolved(c) ==
    [c EXCEPT !.pc = "done",
              !.promise = Rejected(ApiError(c.response.status, c.response.body))]

\* A variant of OnJsonSettled that wraps the parsed body in an envelope.
OnJsonSettledEnvelope(c) ==
    LET p == JsonParse(c.response.body) IN
    [c EXCEPT !.pc = "done",
              !.promise = IF p.ok THEN Fulfilled([data |-> p.value])
                          ELSE Rejected(p.error)]

\* response.json() settled: the call's promise settles the same way.
OnJsonSettled(c) ==
    LET p == JsonParse(c.response.body) IN
    [c EXCEPT !.pc = "done",
              !.promise = IF p.ok THEN Fulfilled(p.value) ELSE Rejected(p.error)]

\* --------------------------------------------------------------- actions

ApiCall(endpoint, options) ==
    /\ Len(calls) < MaxCalls
    /\ calls' = Append(calls, StartCall(API_BASE_URL, endpoint, options))
    /\ UNCHANGED <<API_BASE_URL, authVars, formVars, routerVars, button>>

FetchResolve(i, r) ==
    /\ calls[i].pc = "fetch"
    /\ calls' = [calls EXCEPT ![i] = OnFetchResolved(@, r)]
    /\ UNCHANGED <<API_BASE_URL, authVars, formVars, routerVars, button>>

FetchReject(i) ==
    /\ calls[i].pc = "fetch"
    /\ calls' = [calls EXCEPT ![i] = OnFetchRejected(@, NetworkError)]
    /\ UNCHANGED <<API_BASE_URL, authVars, formVars, routerVars, button>>

TextResolve(i) ==
    /\ calls[i].pc = "text"
    /\ calls' = [calls EXCEPT ![i] = OnTextResolved(@)]
    /\ UNCHANGED <<API_BASE_URL, authVars, formVars, routerVars, button>>

\* A variant of JsonSettle that keeps the response in one place shared by all
\* calls: the body parsed is that of the latest call that has a response.
JsonSettleShared(i) ==
    /\ calls[i].pc = "json"
    /\ LET got == { j \in 1..Len(calls) : calls[j].response # UNDEFINED }
           last == CHOOSE j \in got : \A k \in got : k <= j
       IN  calls' = [calls EXCEPT ![i] =
                       [@ EXCEPT !.pc = "done",
                                 !.promise = OnJsonSettled(calls[last]).promise]]
    /\ UNCHANGED <<API_BASE_URL, authVars, formVars, routerVars, button>>

JsonSettle(i) ==
    /\ calls[i].pc = "json"
    /\ calls' = [calls EXCEPT ![i] = OnJsonSettled(@)]
    /\ UNCHANGED <<API_BASE_URL, authVars, formVars, routerVars, button>>

\* ----------------------------------------------------------- Auth Context

Users ==
    { [id |-> "1", email |-> "a@b.com", name |-> "A"],
      [id |-> "2", email |-> "c@d.com", name |-> "C"] }

\* A variant of login that logs out a user who logs in again.
loginToggles(prev, u) == IF prev = u THEN NULL ELSE u

\* A variant of login that keeps a user who is already logged in.
loginKeepsCurrent(prev, u) == IF prev = NULL THEN u ELSE prev

\* A variant of logout that leaves the cell alone.
logoutNoop(prev) == prev

\* const login = (user: User) => setUser(user)
login(prev, u) == u

\* const logout = () => setUser(null)
logout(prev) == NULL

\* A variant of InitialUser that restores a session kept in storage.
InitialUserRestored == IF storage = <<>> THEN NULL ELSE storage[1]

\* useState<User | null>(null): the cell of a freshly mounted AuthProvider.
InitialUser == NULL

\* What persistent storage may hold when the application starts: nothing, or
\* a record some earlier session left there.
StorageContents ==
    { <<>>, <<[id |-> "1", email |-> "a@b.com", name |-> "A"]>> }

\* The value the provider hands down: { user, login, logout }.
ContextValue(u) == [user |-> u, login |-> "login", logout |-> "logout"]

\* useContext(AuthContext): the value of the enclosing AuthProvider, or the
\* default of createContext<AuthContextValue | null>(null).
useContext(nested, u) == IF nested THEN ContextValue(u) ELSE NULL

Threw(message) == [kind |-> "throw", message |-> message]

Returned(v) == [kind |-> "return", value |-> v]

\* A variant of useAuth without the guard.
useAuthUnguarded(context) == Returned(context)

\* A variant of useAuth whose guard tests the user instead of the context.
useAuthRequiresUser(context) ==
    IF context = NULL \/ context.user = NULL
    THEN Threw("useAuth must be used within an AuthProvider")
    ELSE Returned(context)

\* useAuth(): throws when the context value is missing, else returns it.
useAuth(context) ==
    IF context = NULL
    THEN Threw("useAuth must be used within an AuthProvider")
    ELSE Returned(context)

NoLookup == [kind |-> "none"]

Login(u) ==
    /\ Len(ops) < MaxOps
    /\ user' = login(user, u)
    /\ ops' = Append(ops, [op |-> "login", arg |-> u, after |-> user'])
    /\ UNCHANGED <<API_BASE_URL, calls, storage, lookup, formVars, routerVars, button>>

Logout ==
    /\ Len(ops) < MaxOps
    /\ user' = logout(user)
    /\ ops' = Append(ops, [op |-> "logout", arg |-> NULL, after |-> user'])
    /\ UNCHANGED <<API_BASE_URL, calls, storage, lookup, formVars, routerVars, button>>

\* A component calls useAuth() during its render, nested under the
\* AuthProvider or not.
UseAuth(nested) ==
    /\ lookup' = [kind |-> "called", nested |-> nested, user |-> user,
                  outcome |-> useAuth(useContext(nested, user))]
    /\ UNCHANGED <<API_BASE_URL, calls, user, ops, storage, formVars, routerVars, button>>

\* A fresh process start: the page is loaded again and AuthProvider mounts
\* anew; persistent storage is all that survives.
Restart ==
    /\ user' = InitialUser
    /\ ops' = <<>>
    /\ lookup' = NoLookup
    /\ UNCHANGED <<API_BASE_URL, calls, storage, formVars, routerVars, button>>

\* -------------------------------------------------------------- validators

\* The characters of the validated strings: a letter, two whitespace
\* characters, and the two characters the e-mail pattern names.
Chars == {"a", " ", "\t", "@", "."}

\* What String.prototype.trim and the pattern's \s take for whitespace.
IsWhitespace(ch) == ch \in {" ", "\t", "\n", "\r"}

RECURSIVE TrimStart(_)
TrimStart(s) ==
    IF s # <<>> /\ IsWhitespace(Head(s)) THEN TrimStart(Tail(s)) ELSE s

RECURSIVE TrimEnd(_)
TrimEnd(s) ==
    IF s # <<>> /\ IsWhitespace(s[Len(s)])
    THEN TrimEnd(SubSeq(s, 1, Len(s) - 1)) ELSE s

\* value.trim()
Trim(s) == TrimEnd(TrimStart(s))

\* A variant of isNonEmpty that does not trim.
isNonEmptyUntrimmed(s) == Len(s) > 0

\* A variant of isNonEmpty that asks for more than one character.
isNonEmptyOffByOne(s) == Len(Trim(s)) > 1

\* return value.trim().length > 0
isNonEmpty(s) == Len(Trim(s)) > 0

\* The pattern /^[^\s@]+@[^\s@]+\.[^\s@]+$/ as an automaton. Its states:
\* "start", "local" (inside the first [^\s@]+), "at" (after @), "domain"
\* (inside the second [^\s@]+), "dot" (after \.), "tld" (inside the third
\* [^\s@]+, where $ may match).
InClass(ch) == ~IsWhitespace(ch) /\ ch # "@"

EmailStep(q, ch) ==
    CASE q = "start"  -> IF InClass(ch) THEN {"local"} ELSE {}
      [] q = "local"  -> IF InClass(ch) THEN {"local"}
                         ELSE IF ch = "@" THEN {"at"} ELSE {}
      [] q = "at"     -> IF InClass(ch) THEN {"domain"} ELSE {}
      [] q = "domain" -> IF ch = "." THEN {"domain", "dot"}
                         ELSE IF InClass(ch) THEN {"domain"} ELSE {}
      [] q = "dot"    -> IF InClass(ch) THEN {"tld"} ELSE {}
      [] q = "tld"    -> IF InClass(ch) THEN {"tld"} ELSE {}

RECURSIVE EmailRun(_, _)
EmailRun(Q, s) ==
    IF s = <<>> THEN Q
    ELSE EmailRun(UNION { EmailStep(q, Head(s)) : q \in Q }, Tail(s))

\* A variant of isValidEmail whose pattern ends after the domain:
\* /^[^\s@]+@[^\s@]+$/
isValidEmailNoTld(s) ==
    \E i \in 2..(Len(s) - 1) :
        /\ s[i] = "@"
        /\ \A k \in (1..Len(s)) \ {i} : InClass(s[k])

\* A variant of isValidEmail that asks for a top-level domain of two or more
\* characters: /^[^\s@]+@[^\s@]+\.[^\s@]{2,}$/
isValidEmailLongTld(s) ==
    \E i \in 2..Len(s), j \in 4..(Len(s) - 2) :
        /\ s[i] = "@" /\ s[j] = "." /\ j > i + 1
        /\ \A k \in (1..Len(s)) \ {i} : InClass(s[k])

\* return /^[^\s@]+@[^\s@]+\.[^\s@]+$/.test(value)
isValidEmail(s) == "tld" \in EmailRun({"start"}, s)

\* Both validators applied to a string.
Validate(s) == [nonEmpty |-> isNonEmpty(s), validEmail |-> isValidEmail(s)]

\* One more character is typed and the string is validated again.
TypeChar(ch) ==
    /\ Len(value) < MaxLen
    /\ value' = Append(value, ch)
    /\ verdict' = Validate(value')
    /\ UNCHANGED <<API_BASE_URL, calls, authVars, routerVars, button>>

\* The string is cleared and validated again.
ClearValue ==
    /\ value # <<>>
    /\ value' = <<>>
    /\ verdict' = Validate(value')
    /\ UNCHANGED <<API_BASE_URL, calls, authVars, routerVars, button>>

\* ------------------------------------------------------------------ router

\* A pathname is a sequence of tokens that starts with "/": the separator,
\* the word dashboard in two spellings, and some other word.
PathTokens == {"/", "dashboard", "DASHBOARD", "x"}

RECURSIVE SeqsOver(_, _)
SeqsOver(S, n) ==
    IF n = 0 THEN {<<>>}
    ELSE LET shorter == SeqsOver(S, n - 1)
         IN  shorter \cup { Append(q, t) : q \in shorter, t \in S }

Pathnames == { p \in SeqsOver(PathTokens, MaxPathLen) : p # <<>> /\ p[1] = "/" }

\* The modules App.tsx imports statically (lines 2-5).
AppImports ==
    { "components/layout/PageWrapper", "pages/HomePage",
      "pages/DashboardPage", "pages/NotFoundPage" }

\* A component imported statically, and one wrapped by React.lazy around a
\* dynamic import of its module.
Static(component) == [component |-> component, lazy |-> FALSE]

Lazy(component, module) ==
    [component |-> component, lazy |-> TRUE, module |-> module]

\* The wrapper lazy(() => import("../pages/DashboardPage")...).
LazyDashboardPage == Lazy("DashboardPage", "pages/DashboardPage")

\* A variant of Routes without the catch-all route.
RoutesWithoutCatchAll ==
    << [path |-> <<"/">>, element |-> Static("HomePage")],
       [path |-> <<"/", "dashboard">>, element |-> Static("DashboardPage")] >>

\* The route table of App: each element is the component App imports.
Routes ==
    << [path |-> <<"/">>, element |-> Static("HomePage")],
       [path |-> <<"/", "dashboard">>, element |-> Static("DashboardPage")],
       [path |-> <<"*">>, element |-> Static("NotFoundPage")] >>

\* Letter case folded, as the router's case-insensitive pattern does.
Lower(t) == IF t = "DASHBOARD" THEN "dashboard" ELSE t

RECURSIVE StripTrailingSlashes(_)
StripTrailingSlashes(p) ==
    IF p # <<>> /\ p[Len(p)] = "/"
    THEN StripTrailingSlashes(SubSeq(p, 1, Len(p) - 1)) ELSE p

\* A variant of MatchPath that compares the pathname with the path as written.
MatchPathExact(path, pathname) == path = <<"*">> \/ pathname = path

\* <Route path=...> against a pathname, as React Router matches a route that
\* sets neither caseSensitive nor end: "*" matches every pathname; another
\* path, its trailing slashes dropped and with a leading "/", must be the
\* pathname's beginning up to letter case, and only "/" may follow it.
MatchPath(path, pathname) ==
    \/ path = <<"*">>
    \/ LET stripped == StripTrailingSlashes(path)
           pattern == IF stripped = <<>> THEN <<"/">> ELSE stripped
           n == Len(pattern)
       IN  /\ Len(pathname) >= n
           /\ \A i \in 1..n : Lower(pathname[i]) = Lower(pattern[i])
           /\ \A i \in (n + 1)..Len(pathname) : pathname[i] = "/"

\* The router ranks the routes that match: a splat below every other path.
RouteScore(route) == IF route.path = <<"*">> THEN -1 ELSE Len(route.path)

\* <Routes>: the elements of the best-ranked routes that match the pathname.
Matched(pathname) ==
    LET hits == { i \in DOMAIN Routes : MatchPath(Routes[i].path, pathname) }
    IN  { Routes[i].element :
            i \in { h \in hits :
                      \A k \in hits : RouteScore(Routes[k]) <= RouteScore(Routes[h]) } }

\* The modules whose load rendering these elements starts: those of the lazy
\* ones.
LoadsOf(elements) == { el.module : el \in { x \in elements : x.lazy } }

\* The application starts at a pathname: main evaluates App and with it the
\* modules App imports, and <Routes> renders the matching element.
StartApp(pathname) ==
    /\ history = <<>>
    /\ history' = <<pathname>>
    /\ pages' = { el.component : el \in Matched(pathname) }
    /\ modules' = AppImports \cup LoadsOf(Matched(pathname))
    /\ UNCHANGED <<API_BASE_URL, calls, authVars, formVars, button>>

\* A variant of Navigate in which the provider is mounted below the routed
\* page, so that a change of location mounts it anew.
NavigateRemounts(pathname) ==
    /\ history # <<>>
    /\ Len(history) < MaxNav
    /\ history' = Append(history, pathname)
    /\ pages' = { el.component : el \in Matched(pathname) }
    /\ modules' = modules \cup LoadsOf(Matched(pathname))
    /\ user' = InitialUser
    /\ UNCHANGED <<API_BASE_URL, calls, ops, storage, lookup, formVars, button>>

\* The location changes and <Routes> renders again.
Navigate(pathname) ==
    /\ history # <<>>
    /\ Len(history) < MaxNav
    /\ history' = Append(history, pathname)
    /\ pages' = { el.component : el \in Matched(pathname) }
    /\ modules' = modules \cup LoadsOf(Matched(pathname))
    /\ UNCHANGED <<API_BASE_URL, calls, authVars, formVars, button>>

\* ------------------------------------------------------------------ Button

Variants == {"primary", "secondary", "danger"}

Sizes == {"sm", "md", "lg"}

Children == {"Submit", "Click me"}

\* The props a parent passes: children, and any of variant, size, isLoading,
\* disabled and type (a button attribute Button does not name).
ButtonPropsSet ==
    { [k \in keys \cup {"children"} |-> full[k]] :
        full \in [ variant : Variants, size : Sizes, isLoading : BOOLEAN,
                   disabled : BOOLEAN, type : {"submit"}, children : Children ],
        keys \in SUBSET {"variant", "size", "isLoading", "disabled", "type"} }

\* The text rendered while loading: "Loading" and the character U+2026.
LoadingText == "Loading\\u2026"

\* The classes cn(...) is handed that are not false: two fixed ones, that of
\* the variant, that of the size, and the dimmed one of a button that is
\* disabled or loading.
ClassNames(variant, size, dimmed) ==
    { "inline-flex items-center justify-center rounded-md font-medium transition-colors",
      "focus-visible:outline-none focus-visible:ring-2 focus-visible:ring-offset-2" }
    \cup { CASE variant = "primary" -> "bg-blue-600 text-white hover:bg-blue-700"
             [] variant = "secondary" -> "bg-gray-100 text-gray-900 hover:bg-gray-200"
             [] variant = "danger" -> "bg-red-600 text-white hover:bg-red-700" }
    \cup { CASE size = "sm" -> "px-3 py-1.5 text-sm"
             [] size = "md" -> "px-4 py-2 text-sm"
             [] size = "lg" -> "px-6 py-3 text-base" }
    \cup (IF dimmed THEN {"cursor-not-allowed opacity-50"} ELSE {})

\* The props Button names in its parameter; the others are its rest props.
NamedProps == {"variant", "size", "isLoading", "className", "children", "disabled"}

\* A variant of Button that does not take disabled out of the props it
\* spreads over the element, so that the caller's value is written last.
ButtonSpreadsDisabled(props) ==
    LET variant == IF "variant" \in DOMAIN props THEN props.variant ELSE "primary"
        size == IF "size" \in DOMAIN props THEN props.size ELSE "md"
        isLoading == IF "isLoading" \in DOMAIN props THEN props.isLoading ELSE FALSE
        disabled == "disabled" \in DOMAIN props /\ props.disabled
        rest == [k \in DOMAIN props \ (NamedProps \ {"disabled"}) |-> props[k]]
    IN  [ attrs |-> Spread([ className |-> ClassNames(variant, size, disabled \/ isLoading),
                             disabled |-> disabled \/ isLoading ],
                           rest),
          children |-> IF isLoading THEN LoadingText ELSE props.children ]

\* A variant of Button that keeps rendering its children while loading.
ButtonKeepsChildren(props) ==
    LET variant == IF "variant" \in DOMAIN props THEN props.variant ELSE "primary"
        size == IF "size" \in DOMAIN props THEN props.size ELSE "md"
        isLoading == IF "isLoading" \in DOMAIN props THEN props.isLoading ELSE FALSE
        disabled == "disabled" \in DOMAIN props /\ props.disabled
        rest == [k \in DOMAIN props \ NamedProps |-> props[k]]
    IN  [ attrs |-> Spread([ className |-> ClassNames(variant, size, disabled \/ isLoading),
                             disabled |-> disabled \/ isLoading ],
                           rest),
          children |-> props.children ]

\* Button(props): the parameter's defaults (variant "primary", size "md",
\* isLoading false; an absent disabled is undefined, which is falsy), then
\* the <button> element: className and disabled, the rest props spread over
\* them, and as children the loading text when loading, else the children.
Button(props) ==
    LET variant == IF "variant" \in DOMAIN props THEN props.variant ELSE "primary"
        size == IF "size" \in DOMAIN props THEN props.size ELSE "md"
        isLoading == IF "isLoading" \in DOMAIN props THEN props.isLoading ELSE FALSE
        disabled == "disabled" \in DOMAIN props /\ props.disabled
        rest == [k \in DOMAIN props \ NamedProps |-> props[k]]
    IN  [ attrs |-> Spread([ className |-> ClassNames(variant, size, disabled \/ isLoading),
                             disabled |-> disabled \/ isLoading ],
                           rest),
          children |-> IF isLoading THEN LoadingText ELSE props.children ]

NoButton == [kind |-> "none"]

\* A parent renders <Button {...props}>.
RenderButton(props) ==
    /\ button' = [props |-> props, element |-> Button(props)]
    /\ UNCHANGED <<API_BASE_URL, calls, authVars, formVars, routerVars>>

\* --------------------------------------------------------- specifications

\* The base URL is read once at startup; no call has been made; a freshly
\* mounted AuthProvider holds useState(null).
Init ==
    /\ API_BASE_URL \in BaseUrls
    /\ calls = <<>>
    /\ storage \in StorageContents
    /\ user = InitialUser
    /\ ops = <<>>
    /\ lookup = NoLookup
    /\ value = <<>>
    /\ verdict = Validate(value)
    /\ history = <<>>
    /\ pages = {}
    /\ modules = {}
    /\ button = NoButton

ApiNext ==
    \/ \E e \in Endpoints, o \in OptionsSet : ApiCall(e, o)
    \/ \E i \in 1..Len(calls), r \in Responses : FetchResolve(i, r)
    \/ \E i \in 1..Len(calls) : FetchReject(i)
    \/ \E i \in 1..Len(calls) : TextResolve(i)
    \/ \E i \in 1..Len(calls) : JsonSettle(i)

AuthNext ==
    \/ \E u \in Users : Login(u)
    \/ Logout
    \/ \E nested \in BOOLEAN : UseAuth(nested)
    \/ Restart

ValidatorNext ==
    \/ \E ch \in Chars : TypeChar(ch)
    \/ ClearValue

RouterNext ==
    \/ \E p \in Pathnames : StartApp(p)
    \/ \E p \in Pathnames : Navigate(p)

ButtonNext == \E p \in ButtonPropsSet : RenderButton(p)

\* The work done so far, over all components.
Work ==
    Len(calls)
    + Cardinality({ i \in 1..Len(calls) : calls[i].pc # "fetch" })
    + Cardinality({ i \in 1..Len(calls) : calls[i].pc = "done" })
    + Len(ops) + Len(value) + Len(history)
    + (IF lookup = NoLookup THEN 0 ELSE 1)
    + (IF button = NoButton THEN 0 ELSE 1)

WithinWork == Work < MaxWork

\* One pathname for each route of the table.
RoutePathnames == { <<"/">>, <<"/", "dashboard">>, <<"/", "x">> }

\* Three renderings of the Button: the defaults, loading, disabled.
ButtonSamples ==
    { [children |-> "Click me"],
      [isLoading |-> TRUE, children |-> "Submit"],
      [variant |-> "danger", disabled |-> TRUE, children |-> "Submit"] }

Next ==
    \/ WithinWork /\ \E e \in Endpoints, o \in OptionsSet : ApiCall(e, o)
    \/ WithinWork /\ \E i \in 1..Len(calls), r \in Responses : FetchResolve(i, r)
    \/ WithinWork /\ \E i \in 1..Len(calls) : FetchReject(i)
    \/ WithinWork /\ \E i \in 1..Len(calls) : TextResolve(i)
    \/ WithinWork /\ \E i \in 1..Len(calls) : JsonSettle(i)
    \/ WithinWork /\ \E u \in Users : Login(u)
    \/ WithinWork /\ Logout
    \/ WithinWork /\ \E nested \in BOOLEAN : UseAuth(nested)
    \/ WithinWork /\ Restart
    \/ WithinWork /\ \E ch \in Chars : TypeChar(ch)
    \/ WithinWork /\ ClearValue
    \/ WithinWork /\ \E p \in RoutePathnames : StartApp(p)
    \/ WithinWork /\ \E p \in RoutePathnames : Navigate(p)
    \/ WithinWork /\ \E p \in ButtonSamples : RenderButton(p)

\* The API client alone, which never touches storage.
ApiInit == Init /\ storage = <<>>

ApiSpec == ApiInit /\ [][ApiNext]_vars

\* The Auth Context alone.
AuthSpec == Init /\ [][AuthNext]_vars

\* The validators alone.
ValidatorSpec == Init /\ [][ValidatorNext]_vars

\* The router alone, which uses neither the base URL nor storage.
RouterInit == Init /\ API_BASE_URL = <<"/", "a">> /\ storage = <<>>

RouterSpec == RouterInit /\ [][RouterNext]_vars

\* The Button alone.
ButtonInit == Init /\ API_BASE_URL = <<"/", "a">> /\ storage = <<>>

ButtonSpec == ButtonInit /\ [][ButtonNext]_vars

\* The whole application: every component's steps interleaved, up to MaxWork.
Spec == Init /\ [][Next]_vars

\* ------------------------------------------------- claims: the API client

Made == 1..Len(calls)

Settled(c) == c.pc = "done"

GotResponse(c) == c.response # UNDEFINED

\* C1: a call whose response has ok = false never fulfils, and once settled
\* its promise is rejected with an ApiError whose status is the response's
\* status code and whose message is the raw body text.
C1_NonOkRejectsWithApiError ==
    \A i \in Made :
        LET c == calls[i] IN
        (GotResponse(c) /\ ~c.response.ok) =>
            /\ c.promise.state # "fulfilled"
            /\ Settled(c) =>
                /\ c.promise.state = "rejected"
                /\ c.promise.reason.name = "ApiError"
                /\ c.promise.reason.status = c.response.status
                /\ c.promise.reason.message = c.response.body

\* C1 witness: HTTP 404 with body "not found" has rejected with status 404
\* and message "not found".
C1_Witness ==
    \E i \in Made :
        /\ Settled(calls[i])
        /\ calls[i].response = [status |-> 404, ok |-> FALSE, body |-> "not found"]
        /\ calls[i].promise =
             [state |-> "rejected",
              reason |-> [name |-> "ApiError", status |-> 404,
                          message |-> "not found"]]

\* C2: a call whose response has ok = true and a body that is valid JSON
\* resolves, once settled, to the parsed body, and a call whose response is
\* ok never rejects with an ApiError.
C2_OkJsonResolvesToParsedBody ==
    \A i \in Made :
        LET c == calls[i] IN
        (GotResponse(c) /\ c.response.ok) =>
            /\ (Settled(c) /\ JsonParse(c.response.body).ok) =>
                   /\ c.promise.state = "fulfilled"
                   /\ c.promise.value = JsonParse(c.response.body).value
            /\ c.promise.state = "rejected" =>
                   c.promise.reason.name # "ApiError"

\* C2 witness: HTTP 200 with body {"id":"1"} has resolved to {id:"1"}.
C2_Witness ==
    \E i \in Made :
        /\ Settled(calls[i])
        /\ GotResponse(calls[i])
        /\ calls[i].response.status = 200
        /\ calls[i].response.body = "{\"id\":\"1\"}"
        /\ calls[i].promise = [state |-> "fulfilled", value |-> [id |-> "1"]]

\* The headers of the init object handed to fetch (none: the empty object).
SentHeaders(c) ==
    IF "headers" \in DOMAIN c.init THEN c.init.headers ELSE <<>>

CallerHeaders(c) == Get(c.options, "headers")

\* C3: every request carries Content-Type: application/json, also when the
\* caller passes headers of other names and no Content-Type of its own.
C3_ContentTypeOnEveryRequest ==
    \A i \in Made :
        LET c == calls[i] IN
        "Content-Type" \notin OwnKeys(CallerHeaders(c)) =>
            /\ "Content-Type" \in DOMAIN SentHeaders(c)
            /\ SentHeaders(c)["Content-Type"] = "application/json"

\* C4: the headers handed to fetch are the union of the default headers and
\* the caller's, the caller's value winning on a key of both and every
\* default key the caller did not set being kept.
C4_HeadersMergedOverDefaults ==
    \A i \in Made :
        LET c == calls[i]
            sent == SentHeaders(c)
            own == CallerHeaders(c)
        IN  /\ DOMAIN sent = {"Content-Type"} \cup OwnKeys(own)
            /\ \A k \in OwnKeys(own) : k \in DOMAIN sent => sent[k] = own[k]
            /\ ("Content-Type" \notin OwnKeys(own) /\ "Content-Type" \in DOMAIN sent)
                   => sent["Content-Type"] = "application/json"

\* The three failures of a call: the transport rejected, the response is
\* not ok, the body of an ok response is not JSON.
TransportFailed(c) == Settled(c) /\ ~GotResponse(c)

NotOk(c) == GotResponse(c) /\ ~c.response.ok

ParseFailed(c) ==
    GotResponse(c) /\ c.response.ok /\ c.response.body # "{\"id\":\"1\"}"

\* C5: a failed call (transport rejection, response not ok, JSON parse
\* failure) never resolves with a value: its promise is pending until it
\* rejects.
C5_FailureNeverRecovered ==
    \A i \in Made :
        LET c == calls[i] IN
        (TransportFailed(c) \/ NotOk(c) \/ ParseFailed(c)) =>
            /\ c.promise.state # "fulfilled"
            /\ Settled(c) => c.promise.state = "rejected"

\* C5 witness: a transport rejection and a parse failure have both rejected.
C5_Witness ==
    \E i, j \in Made :
        /\ TransportFailed(calls[i]) /\ calls[i].promise.state = "rejected"
        /\ ParseFailed(calls[j]) /\ Settled(calls[j])
        /\ calls[j].promise.state = "rejected"

\* C6: a call rejects with an ApiError exactly when a response was received
\* and is not ok; a transport rejection and a JSON parse failure reject with
\* the original failure.
C6_ApiErrorIffResponseNotOk ==
    \A i \in Made :
        LET c == calls[i] IN
        Settled(c) =>
            /\ (c.promise.state = "rejected" /\ c.promise.reason.name = "ApiError")
                   <=> NotOk(c)
            /\ TransportFailed(c) => c.promise = Rejected([name |-> "TypeError"])
            /\ ParseFailed(c) => c.promise = Rejected([name |-> "SyntaxError"])

\* C6 witness: one call rejected with the transport's failure and another
\* with an ApiError.
C6_Witness ==
    \E i, j \in Made :
        /\ TransportFailed(calls[i])
        /\ calls[i].promise.reason.name = "TypeError"
        /\ Settled(calls[j]) /\ NotOk(calls[j])
        /\ calls[j].promise.reason.name = "ApiError"

\* C7: every call invokes the transport exactly once, whatever its outcome,
\* so the transport has been invoked once per call made.
C7_FetchExactlyOncePerCall ==
    \A i \in Made : calls[i].fetches = 1

\* C7 witness: two settled calls with the same endpoint and options, one
\* failed and one resolved, each having invoked the transport.
C7_Witness ==
    \E i, j \in Made :
        /\ i # j
        /\ calls[i].endpoint = calls[j].endpoint
        /\ calls[i].options = calls[j].options
        /\ TransportFailed(calls[i])
        /\ calls[j].promise.state = "fulfilled"
        /\ calls[i].fetches = 1 /\ calls[j].fetches = 1

\* C8: the requested URL is the base URL followed immediately by the
\* endpoint, with nothing added or removed between them, and the base URL is
\* the same for every request.
C8_UrlIsBaseThenEndpoint ==
    \A i \in Made :
        LET c == calls[i]
            n == Len(API_BASE_URL)
        IN  /\ Len(c.url) = n + Len(c.endpoint)
            /\ SubSeq(c.url, 1, n) = API_BASE_URL
            /\ SubSeq(c.url, n + 1, Len(c.url)) = c.endpoint

\* C8 witness: a base ending in "/" and an endpoint starting with "/" keep
\* both slashes, and a second request uses the same base.
C8_Witness ==
    \E i, j \in Made :
        /\ calls[i].url = <<"h", "/", "/", "x">>
        /\ calls[j].url = <<"h", "/", "x">>

\* ----------------------------------------------- claims: the Auth Context

LastOp == ops[Len(ops)]

\* C9: after login(u), in either state, the user is u.
C9_LoginSetsUser ==
    (ops # <<>> /\ LastOp.op = "login") => user = LastOp.arg

\* C9 witness: login(u) applied while another user was logged in.
C9_Witness ==
    /\ Len(ops) >= 2
    /\ LastOp.op = "login"
    /\ ops[Len(ops) - 1].op = "login"
    /\ ops[Len(ops) - 1].arg # LastOp.arg
    /\ user = LastOp.arg

\* C10: after logout(), in any state, the user is null.
C10_LogoutClearsUser ==
    (ops # <<>> /\ LastOp.op = "logout") => user = NULL

\* C10 witness: login(u) followed by logout(), and then logout() again in
\* the Anonymous state.
C10_Witness ==
    /\ Len(ops) >= 3
    /\ ops[Len(ops) - 2].op = "login"
    /\ ops[Len(ops) - 1].op = "logout"
    /\ LastOp.op = "logout"
    /\ user = NULL

\* C11: useAuth() called by a consumer that is not nested under an
\* AuthProvider throws "useAuth must be used within an AuthProvider" and
\* returns no value, null or partial.
C11_UseAuthOutsideProviderThrows ==
    (lookup.kind = "called" /\ ~lookup.nested) =>
        /\ lookup.outcome.kind = "throw"
        /\ lookup.outcome.message = "useAuth must be used within an AuthProvider"

\* C11 witness: a consumer outside the provider called useAuth() while a
\* user was logged in, and the call threw.
C11_Witness ==
    /\ lookup.kind = "called"
    /\ ~lookup.nested
    /\ lookup.user \in Users
    /\ lookup.outcome.kind = "throw"

\* C12: a freshly mounted AuthProvider, before any login, holds user = null
\* whatever persistent storage holds, and no step (login and logout among
\* them) changes persistent storage.
C12_StartsAnonymousWithoutStorage ==
    /\ [](ops = <<>> => user = NULL)
    /\ [][storage' = storage]_vars

\* C12 witness: storage holds a record of an earlier session, and the
\* provider, before any login, is Anonymous.
C12_Witness ==
    /\ storage # <<>>
    /\ ops = <<>>
    /\ lookup.kind = "called" /\ lookup.nested
    /\ lookup.outcome.kind = "return"
    /\ lookup.outcome.value.user = NULL

\* C13: login(u) applied twice in a row leaves the state that login(u)
\* applied once left.
C13_LoginIdempotent ==
    LET n == Len(ops) IN
    (n >= 2 /\ ops[n].op = "login" /\ ops[n - 1].op = "login"
            /\ ops[n].arg = ops[n - 1].arg) =>
        /\ ops[n].after = ops[n - 1].after
        /\ user = ops[n - 1].after

\* C13 witness: login(u) twice in a row, from the Anonymous state.
C13_Witness ==
    /\ Len(ops) = 2
    /\ ops[1].op = "login" /\ ops[2].op = "login"
    /\ ops[1].arg = ops[2].arg
    /\ user = ops[1].arg

\* --------------------------------------------------- claims: the validators

Positions == 1..Len(value)

NoWhitespace == \A i \in Positions : ~IsWhitespace(value[i])

\* C15: isNonEmpty(s) is true exactly when s has a character left after its
\* leading and trailing whitespace is removed, that is, when some character
\* of s is not whitespace; it is false for the empty string and for strings
\* of whitespace only.
C15_NonEmptyIffTrimmedLengthPositive ==
    verdict.nonEmpty <=> (\E i \in Positions : ~IsWhitespace(value[i]))

\* C15 witness: a string of whitespace only, of two different whitespace
\* characters, is not non-empty.
C15_Witness ==
    /\ value = <<" ", "\t", " ">>
    /\ ~verdict.nonEmpty

\* C16 as stated: every string that contains no whitespace character is
\* non-empty.
C16_NoWhitespaceIsNonEmpty ==
    NoWhitespace => verdict.nonEmpty

\* C16 as amended: every string of at least one character that contains no
\* whitespace character is non-empty.
C16_NoWhitespaceNotEmptyIsNonEmpty ==
    (value # <<>> /\ NoWhitespace) => verdict.nonEmpty

\* C16 witness: a one-character string without whitespace is non-empty.
C16_Witness ==
    /\ value = <<"@">>
    /\ verdict.nonEmpty

\* local@domain.tld: an "@" after a non-empty local part, then a "." after a
\* non-empty domain and before a non-empty tld.
ShapedAt(i, j) ==
    /\ value[i] = "@" /\ value[j] = "."
    /\ 1 < i /\ i + 1 < j /\ j < Len(value)

\* C17 as stated: every string without whitespace of the shape
\* local@domain.tld, its three parts non-empty, is a valid e-mail address.
C17_ShapedIsValidEmail ==
    (NoWhitespace /\ \E i, j \in Positions : ShapedAt(i, j)) =>
        verdict.validEmail

\* C17 as amended: every such string whose only "@" is the one between local
\* part and domain is a valid e-mail address.
C17_ShapedWithOneAtIsValidEmail ==
    ( /\ NoWhitespace
      /\ \E i, j \in Positions : ShapedAt(i, j)
      /\ Cardinality({i \in Positions : value[i] = "@"}) = 1 ) =>
        verdict.validEmail

\* C17 witness: a@b.a is valid.
C17_Witness ==
    /\ value = <<"a", "@", "a", ".", "a">>
    /\ verdict.validEmail

\* C18: a string without "@", and a string with no "." after its "@", is not
\* a valid e-mail address.
C18_MissingAtOrDotIsInvalid ==
    ( \/ \A i \in Positions : value[i] # "@"
      \/ \E i \in Positions :
            /\ value[i] = "@"
            /\ \A j \in Positions : j > i => value[j] # "." ) =>
        ~verdict.validEmail

\* C18 witness: a.a@a has its only "." before the "@" and is not valid.
C18_Witness ==
    /\ value = <<"a", ".", "a", "@", "a">>
    /\ ~verdict.validEmail

\* ------------------------------------------------------- claims: the router

Location == history[Len(history)]

\* A pathname of "/" only, and one that is /dashboard in either spelling
\* with any number of "/" after it.
OnlySlashes(p) == \A i \in 1..Len(p) : p[i] = "/"

DashboardLike(p) ==
    /\ Len(p) >= 2
    /\ p[2] \in {"dashboard", "DASHBOARD"}
    /\ \A i \in 3..Len(p) : p[i] = "/"

\* C19 as stated: "/" renders the home page, "/dashboard" the dashboard
\* page, every other path the not-found page, and exactly one page is
\* rendered for every path.
C19_RoutesByExactPath ==
    history # <<>> =>
        pages = IF Location = <<"/">> THEN {"HomePage"}
                ELSE IF Location = <<"/", "dashboard">> THEN {"DashboardPage"}
                ELSE {"NotFoundPage"}

\* C19 as amended: exactly one page is rendered for every path; "/" and the
\* paths of "/" only render the home page, "/dashboard" and its variants in
\* letter case and trailing slashes render the dashboard page, and every
\* other path renders the not-found page.
C19_RoutesUpToCaseAndTrailingSlash ==
    history # <<>> =>
        /\ Cardinality(pages) = 1
        /\ pages = IF OnlySlashes(Location) THEN {"HomePage"}
                   ELSE IF DashboardLike(Location) THEN {"DashboardPage"}
                   ELSE {"NotFoundPage"}

\* C19 witness: the three pages in turn, the dashboard page the second time
\* by a path with a trailing slash.
C19_Witness ==
    /\ history = << <<"/", "x", "dashboard">>, <<"/", "dashboard", "/">> >>
    /\ pages = {"DashboardPage"}

\* C20: the dashboard page's module is not loaded before the first
\* navigation to the dashboard route, and the route table renders the lazy
\* wrapper for that route.
C20_DashboardLoadedLazily ==
    /\ "pages/DashboardPage" \in modules =>
           \E i \in 1..Len(history) : DashboardLike(history[i])
    /\ history # <<>> =>
           \A i \in DOMAIN Routes :
               Routes[i].path = <<"/", "dashboard">> =>
                   Routes[i].element = LazyDashboardPage

\* ----------------------------------------- claims: the whole application

\* C14: only login and logout change the current user during a session: a
\* step that changes it is a login, a logout, or the start of a new session;
\* useAuth() lookups, navigation, API calls and their completion, and the
\* validators leave it as it is.
C14_OnlyLoginLogoutChangeUser ==
    [][ user' # user => (\E u \in Users : Login(u)) \/ Logout \/ Restart ]_vars

\* C14 witness: a user is logged in, an API call was made, and a consumer
\* under the provider read that same user through useAuth().
C14_Witness ==
    /\ user \in Users
    /\ calls # <<>>
    /\ lookup.kind = "called" /\ lookup.nested
    /\ lookup.outcome.value.user = user

\* ------------------------------------ claims: concurrent calls, body, init

\* The outcome a call's own response calls for: the transport's failure when
\* there is none, an ApiError of its status and body when it is not ok, the
\* parsed body or the parse failure when it is ok.
OutcomeOf(c) ==
    IF ~GotResponse(c) THEN [state |-> "rejected", reason |-> [name |-> "TypeError"]]
    ELSE IF ~c.response.ok
    THEN [state |-> "rejected",
          reason |-> [name |-> "ApiError", status |-> c.response.status,
                      message |-> c.response.body]]
    ELSE IF c.response.body = "{\"id\":\"1\"}"
    THEN [state |-> "fulfilled", value |-> [id |-> "1"]]
    ELSE [state |-> "rejected", reason |-> [name |-> "SyntaxError"]]

\* C21: with several calls in flight and their responses arriving in any
\* order, the outcome of each settled call is the one its own response calls
\* for, so two calls with the same response settle alike whatever the other
\* calls received and whichever completed first.
C21_ConcurrentCallsIndependent ==
    /\ \A i \in Made : Settled(calls[i]) => calls[i].promise = OutcomeOf(calls[i])
    /\ \A i, j \in Made :
           (Settled(calls[i]) /\ Settled(calls[j])
              /\ calls[i].response = calls[j].response)
               => calls[i].promise = calls[j].promise

\* C21 witness: the second call completed first, rejected with the ApiError
\* of its own 404, while the first, whose response is ok, is still in flight.
C21_Witness ==
    /\ Len(calls) = 2
    /\ calls[1].pc = "json"
    /\ calls[1].response = [status |-> 200, ok |-> TRUE, body |-> "{\"id\":\"1\"}"]
    /\ Settled(calls[2])
    /\ calls[2].promise =
         [state |-> "rejected",
          reason |-> [name |-> "ApiError", status |-> 404, message |-> "not found"]]

\* C25: a call reads the body of its response once and in one mode: as text,
\* never parsed as JSON, when the response is not ok (so an error body that
\* is not valid JSON still yields an ApiError with that text), and parsed as
\* JSON, never read as text, when the response is ok.
C25_BodyReadOnceInOneMode ==
    \A i \in Made :
        LET c == calls[i] IN
        /\ Len(c.reads) <= 1
        /\ ~GotResponse(c) => c.reads = <<>>
        /\ NotOk(c) =>
               /\ c.reads = <<"text">>
               /\ Settled(c) =>
                      c.promise = [state |-> "rejected",
                                   reason |-> [name |-> "ApiError",
                                               status |-> c.response.status,
                                               message |-> c.response.body]]
        /\ (GotResponse(c) /\ c.response.ok) => c.reads = <<"json">>

\* C25 witness: a 404 whose body "not found" is not JSON was read as text and
\* rejected with that text, and an ok response was parsed as JSON.
C25_Witness ==
    \E i, j \in Made :
        /\ Settled(calls[i]) /\ NotOk(calls[i])
        /\ calls[i].response.body = "not found"
        /\ calls[i].reads = <<"text">>
        /\ calls[i].promise.reason.message = "not found"
        /\ Settled(calls[j]) /\ GotResponse(calls[j]) /\ calls[j].response.ok
        /\ calls[j].reads = <<"json">>

\* C26: the init object handed to fetch has the caller's method and body,
\* each exactly when the caller passed it and with the caller's value, and
\* for a call without options it is the default headers alone.
C26_MethodAndBodyForwarded ==
    \A i \in Made :
        LET c == calls[i] IN
        /\ \A k \in {"method", "body"} :
               /\ k \in DOMAIN c.init <=> k \in OwnKeys(c.options)
               /\ k \in OwnKeys(c.options) => c.init[k] = c.options[k]
        /\ c.options = UNDEFINED =>
               c.init = [headers |-> [k \in {"Content-Type"} |-> "application/json"]]

\* C26 witness: a call with method POST and body "b" sent both, and a call
\* without options sent the default headers and nothing else.
C26_Witness ==
    \E i, j \in Made :
        /\ calls[i].options = [method |-> "POST", body |-> "b"]
        /\ calls[i].init.method = "POST" /\ calls[i].init.body = "b"
        /\ calls[j].options = UNDEFINED
        /\ DOMAIN calls[j].init = {"headers"}

\* ------------------------------------- claims: the Auth Context, continued

\* The user a history of operations calls for: its last operation decides.
UserAfter(h) ==
    IF h = <<>> THEN NULL
    ELSE IF h[Len(h)].op = "login" THEN h[Len(h)].arg ELSE NULL

\* C23: after any sequence of login and logout operations on one
\* AuthProvider the user is the argument of the last operation if that is a
\* login and null otherwise (also after no operation at all), and so it was
\* after every operation of the sequence.
C23_UserIsLastLoginUnlessLoggedOut ==
    /\ user = UserAfter(ops)
    /\ \A n \in 1..Len(ops) : ops[n].after = UserAfter(SubSeq(ops, 1, n))

\* C23 witness: login(u), logout(), login(v) with v another user: the user
\* is v.
C23_Witness ==
    /\ Len(ops) >= 3
    /\ ops[Len(ops) - 2].op = "login"
    /\ ops[Len(ops) - 1].op = "logout"
    /\ LastOp.op = "login"
    /\ LastOp.arg # ops[Len(ops) - 2].arg
    /\ user = LastOp.arg

\* C24: useAuth() called by a consumer nested under the AuthProvider
\* returns, in either state, the context value: the current user (null in
\* the Anonymous state) and the login and logout mutators; it never throws.
C24_UseAuthUnderProviderReturns ==
    (lookup.kind = "called" /\ lookup.nested) =>
        /\ lookup.outcome.kind = "return"
        /\ lookup.outcome.value.user = lookup.user
        /\ lookup.outcome.value.login = "login"
        /\ lookup.outcome.value.logout = "logout"

\* C24 witness: a nested consumer called useAuth() in the Anonymous state,
\* after a logout, and got a context value whose user is null.
C24_Witness ==
    /\ ops # <<>>
    /\ LastOp.op = "logout"
    /\ lookup.kind = "called"
    /\ lookup.nested
    /\ lookup.user = NULL
    /\ lookup.outcome.kind = "return"
    /\ lookup.outcome.value.user = NULL

\* ------------------------------------------ claims: validators, continued

\* C27: a valid e-mail address contains no whitespace character and exactly
\* one "@", has at least one character before the "@" and a "." after it
\* with a non-empty part on each side, and is therefore non-empty.
C27_ValidEmailShapeAndNonEmpty ==
    verdict.validEmail =>
        /\ NoWhitespace
        /\ Cardinality({ i \in Positions : value[i] = "@" }) = 1
        /\ \E i, j \in Positions : ShapedAt(i, j)
        /\ verdict.nonEmpty

\* C27 witness: .@a.a is valid and non-empty.
C27_Witness ==
    /\ value = <<".", "@", "a", ".", "a">>
    /\ verdict.validEmail
    /\ verdict.nonEmpty

\* ------------------------------------------------------ claims: the Button

\* Whether a prop was passed as true.
PassedTrue(props, k) == k \in DOMAIN props /\ props[k]

\* C28: the rendered button is disabled exactly when the disabled prop or
\* the isLoading prop is true, and its content is the loading text while
\* isLoading is true and the children otherwise.
C28_DisabledIffDisabledOrLoading ==
    button # NoButton =>
        LET loading == PassedTrue(button.props, "isLoading")
            rendered == button.element
        IN  /\ rendered.attrs.disabled
                 <=> (PassedTrue(button.props, "disabled") \/ loading)
            /\ loading => rendered.children = LoadingText
            /\ ~loading => rendered.children = button.props.children

\* C28 witness: <Button isLoading>Submit</Button> renders a disabled button
\* that shows the loading text and not "Submit".
C28_Witness ==
    /\ button # NoButton
    /\ button.props = [isLoading |-> TRUE, children |-> "Submit"]
    /\ button.element.attrs.disabled
    /\ button.element.children = LoadingText
    /\ button.element.children # "Submit"

====
